---- MODULE Spec2Model ----
(***************************************************************************)
(* Model of the Klingon-Translator matching engine: TextNormalizer,        *)
(* SimilarityCalculator, DictionaryMatcher, TranslationProcessor and the   *)
(* translationService orchestrator.                                        *)
(*                                                                         *)
(* A string is a sequence of one-character strings.  A number produced by  *)
(* the similarity arithmetic is a reduced fraction <<numerator,            *)
(* denominator>> with a positive denominator, so 1.0 is <<1, 1>> and 0.9   *)
(* is <<9, 10>>.                                                           *)
(***************************************************************************)
EXTENDS Integers, Sequences, FiniteSets, TLC

VARIABLES dictionary, call, result, scanned, hook, view

vars == <<dictionary, call, result, scanned, hook, view>>

(***************************************************************************)
(* Bounds of the model.                                                    *)
(***************************************************************************)
MaxTextLen == 1
MaxNormLen == 4
MaxSimLen == 3
MaxDict == 2
MaxDenominator == 10
MaxCandidateLen == 1
MaxCandidates == 2
DelayTicks == 2
MaxRequests == 2
MaxHistoryRequests == 22
MaxPending == 2

(***************************************************************************)
(* Strings.                                                                *)
(***************************************************************************)
EmptyString == <<>>

\* The value of an optional property that is absent.
Undefined == <<"undefined">>

Whitespace == {" ", "\t"}

Punctuation == {".", ",", "!", "?", ";", ":"}

LowerChar(c) ==
    CASE c = "A" -> "a"
      [] c = "H" -> "h"
      [] c = "K" -> "k"
      [] OTHER -> c

ToLowerCase(text) == [i \in 1..Len(text) |-> LowerChar(text[i])]

RECURSIVE TrimStart(_)
TrimStart(text) ==
    IF text # <<>> /\ Head(text) \in Whitespace
    THEN TrimStart(Tail(text))
    ELSE text

RECURSIVE TrimEnd(_)
TrimEnd(text) ==
    IF text # <<>> /\ text[Len(text)] \in Whitespace
    THEN TrimEnd(SubSeq(text, 1, Len(text) - 1))
    ELSE text

Trim(text) == TrimEnd(TrimStart(text))

IsPunctuation(c) == c \in Punctuation

RemovePunctuation(text) == SelectSeq(text, LAMBDA c : ~IsPunctuation(c))

\* text.replace(/\s+/g, " "): every maximal run of whitespace becomes one space.
CollapseWhitespace(text) ==
    LET starts(i) == \/ text[i] \notin Whitespace
                     \/ i = 1
                     \/ text[i - 1] \notin Whitespace
        kept == SelectSeq([i \in 1..Len(text) |-> i], starts)
    IN  [k \in 1..Len(kept) |->
            IF text[kept[k]] \in Whitespace THEN " " ELSE text[kept[k]]]

\* haystack.includes(needle)
Includes(haystack, needle) ==
    \E i \in 0..(Len(haystack) - Len(needle)) :
        SubSeq(haystack, i + 1, i + Len(needle)) = needle

(***************************************************************************)
(* TextNormalizer.                                                         *)
(***************************************************************************)
NormalizeText(text) ==
    CollapseWhitespace(RemovePunctuation(Trim(ToLowerCase(text))))

IsExactMatch(text1, text2) == NormalizeText(text1) = NormalizeText(text2)

ContainsText(text, searchTerm) ==
    LET normalizedText == NormalizeText(text)
        normalizedTerm == NormalizeText(searchTerm)
    IN  \/ Includes(normalizedText, normalizedTerm)
        \/ Includes(normalizedTerm, normalizedText)

\* An emptiness test that only trims, without normalizing.
IsEmptyTextTrimOnly(text) == Trim(text) = EmptyString

IsEmptyText(text) == NormalizeText(text) = EmptyString

(***************************************************************************)
(* Fractions.                                                              *)
(***************************************************************************)
RECURSIVE Gcd(_, _)
Gcd(a, b) == IF b = 0 THEN a ELSE Gcd(b, a % b)

Abs(n) == IF n < 0 THEN -n ELSE n

Frac(n, d) == LET g == Gcd(Abs(n), d) IN <<n \div g, d \div g>>

Zero == Frac(0, 1)
One == Frac(1, 1)
MatchThreshold == Frac(6, 10)
PartialTier == Frac(9, 10)

\* A comparison that also accepts equal numbers.
GtOrEqual(x, y) == x[1] * y[2] >= y[1] * x[2]

Gt(x, y) == x[1] * y[2] > y[1] * x[2]
Geq(x, y) == x[1] * y[2] >= y[1] * x[2]

Min3(a, b, c) ==
    IF a <= b /\ a <= c THEN a ELSE IF b <= c THEN b ELSE c

Max2(a, b) == IF a >= b THEN a ELSE b

(***************************************************************************)
(* SimilarityCalculator.                                                   *)
(***************************************************************************)
\* The dynamic-programming matrix of calculateSimilarity; matrix[i][j] is
\* indexed by a prefix of str2 (i) and a prefix of str1 (j).
LevenshteinMatrix(str1, str2) ==
    LET len1 == Len(str1)
        len2 == Len(str2)
        matrix[i \in 0..len2, j \in 0..len1] ==
            IF i = 0 THEN j
            ELSE IF j = 0 THEN i
            ELSE IF str2[i] = str1[j] THEN matrix[i - 1, j - 1]
            ELSE Min3(matrix[i - 1, j - 1] + 1,
                      matrix[i, j - 1] + 1,
                      matrix[i - 1, j] + 1)
    IN  matrix

\* A similarity whose edge cases are tested in the wrong order.
CalculateSimilarityEdgeSwapped(str1, str2) ==
    LET len1 == Len(str1)
        len2 == Len(str2)
    IN  IF len1 = 0 \/ len2 = 0 THEN Zero
        ELSE IF len1 = 0 /\ len2 = 0 THEN One
        ELSE LET maxLen == Max2(len1, len2)
             IN  Frac(maxLen - LevenshteinMatrix(str1, str2)[len2, len1], maxLen)

\* A similarity that divides by the length of the first string.
CalculateSimilarityByLen1(str1, str2) ==
    LET len1 == Len(str1)
        len2 == Len(str2)
    IN  IF len1 = 0 /\ len2 = 0 THEN One
        ELSE IF len1 = 0 \/ len2 = 0 THEN Zero
        ELSE Frac(len1 - LevenshteinMatrix(str1, str2)[len2, len1], len1)

\* A similarity that never considers the deletion neighbour of the matrix.
CalculateSimilarityNoDeletion(str1, str2) ==
    LET len1 == Len(str1)
        len2 == Len(str2)
        matrix[i \in 0..len2, j \in 0..len1] ==
            IF i = 0 THEN j
            ELSE IF j = 0 THEN i
            ELSE IF str2[i] = str1[j] THEN matrix[i - 1, j - 1]
            ELSE Min3(matrix[i - 1, j - 1] + 1,
                      matrix[i, j - 1] + 1,
                      matrix[i, j - 1] + 1)
    IN  IF len1 = 0 /\ len2 = 0 THEN One
        ELSE IF len1 = 0 \/ len2 = 0 THEN Zero
        ELSE LET maxLen == Max2(len1, len2)
             IN  Frac(maxLen - matrix[len2, len1], maxLen)

CalculateSimilarity(str1, str2) ==
    LET len1 == Len(str1)
        len2 == Len(str2)
    IN  IF len1 = 0 /\ len2 = 0 THEN One
        ELSE IF len1 = 0 \/ len2 = 0 THEN Zero
        ELSE LET maxLen == Max2(len1, len2)
             IN  Frac(maxLen - LevenshteinMatrix(str1, str2)[len2, len1], maxLen)

(***************************************************************************)
(* DictionaryMatcher.                                                      *)
(***************************************************************************)
\* translation[sourceField]
Field(translation, field) ==
    IF field = "english" THEN translation.english ELSE translation.klingon

CalculateMatchSimilarity(normalizedInput, sourceText) ==
    LET normalizedSource == NormalizeText(sourceText)
    IN  IF IsExactMatch(normalizedInput, normalizedSource) THEN One
        ELSE IF ContainsText(normalizedInput, normalizedSource) THEN PartialTier
        ELSE CalculateSimilarity(normalizedInput, normalizedSource)

\* matches.sort((a, b) => b.similarity - a.similarity): a stable sort, highest
\* similarity first.  InsertMatch puts m behind every match that is not smaller.
\* An insertion that puts m in front of the matches equal to it.
InsertMatchBeforeEqual(sorted, m) ==
    LET k == Cardinality({i \in 1..Len(sorted) : Gt(sorted[i].similarity, m.similarity)})
    IN  SubSeq(sorted, 1, k) \o <<m>> \o SubSeq(sorted, k + 1, Len(sorted))

InsertMatch(sorted, m) ==
    LET k == Cardinality({i \in 1..Len(sorted) : Geq(sorted[i].similarity, m.similarity)})
    IN  SubSeq(sorted, 1, k) \o <<m>> \o SubSeq(sorted, k + 1, Len(sorted))

RECURSIVE SortBySimilarity(_)
SortBySimilarity(matches) ==
    IF matches = <<>> THEN <<>>
    ELSE InsertMatch(SortBySimilarity(SubSeq(matches, 1, Len(matches) - 1)),
                     matches[Len(matches)])

\* A loop that also scores the entries whose searched field is empty.
RECURSIVE ScanDictionaryNoSkip(_, _, _, _)
ScanDictionaryNoSkip(normalizedInput, dict, sourceField, n) ==
    IF n = 0 THEN <<>>
    ELSE LET matches == ScanDictionaryNoSkip(normalizedInput, dict, sourceField, n - 1)
             translation == dict[n]
             sourceText == Field(translation, sourceField)
             similarity == CalculateMatchSimilarity(normalizedInput, sourceText)
         IN  IF Gt(similarity, MatchThreshold)
             THEN Append(matches, [translation |-> translation,
                                   similarity |-> similarity])
             ELSE matches

\* The loop of findMatches over the first n entries of the dictionary.
RECURSIVE ScanDictionary(_, _, _, _)
ScanDictionary(normalizedInput, dict, sourceField, n) ==
    IF n = 0 THEN <<>>
    ELSE LET matches == ScanDictionary(normalizedInput, dict, sourceField, n - 1)
             translation == dict[n]
             sourceText == Field(translation, sourceField)
         IN  IF sourceText = EmptyString THEN matches
             ELSE LET similarity == CalculateMatchSimilarity(normalizedInput, sourceText)
                  IN  IF Gt(similarity, MatchThreshold)
                      THEN Append(matches, [translation |-> translation,
                                            similarity |-> similarity])
                      ELSE matches

\* The search filter without the category label.
SearchDictionaryNoCategory(query, dict) ==
    IF Trim(query) = EmptyString THEN <<>>
    ELSE LET normalizedQuery == NormalizeText(query)
             Keep(translation) ==
                 \/ Includes(NormalizeText(translation.english), normalizedQuery)
                 \/ Includes(NormalizeText(translation.klingon), normalizedQuery)
         IN  SelectSeq(dict, Keep)

SearchDictionary(query, dict) ==
    IF Trim(query) = EmptyString THEN <<>>
    ELSE LET normalizedQuery == NormalizeText(query)
             Keep(translation) ==
                 LET english == NormalizeText(translation.english)
                     klingon == NormalizeText(translation.klingon)
                     category == IF translation.category \notin {Undefined, EmptyString}
                                 THEN NormalizeText(translation.category)
                                 ELSE EmptyString
                 IN  \/ Includes(english, normalizedQuery)
                     \/ Includes(klingon, normalizedQuery)
                     \/ Includes(category, normalizedQuery)
         IN  SelectSeq(dict, Keep)

\* The value null.
Null == <<"null">>

\* The state of the loop of findMostSimilar after its first n candidates.
RECURSIVE MostSimilarScan(_, _, _)
MostSimilarScan(target, candidates, n) ==
    IF n = 0 THEN [maxSimilarity |-> Zero, mostSimilar |-> Null]
    ELSE LET before == MostSimilarScan(target, candidates, n - 1)
             candidate == candidates[n]
             similarity == CalculateSimilarity(target, candidate)
         IN  IF Gt(similarity, before.maxSimilarity)
             THEN [maxSimilarity |-> similarity, mostSimilar |-> candidate]
             ELSE before

FindMostSimilar(target, candidates) ==
    IF Len(candidates) = 0 THEN Null
    ELSE MostSimilarScan(target, candidates, Len(candidates)).mostSimilar

FindMatches(input, dict, sourceField) ==
    IF Trim(input) = EmptyString THEN <<>>
    ELSE LET sorted == SortBySimilarity(
                 ScanDictionary(NormalizeText(input), dict, sourceField, Len(dict)))
         IN  [i \in 1..Len(sorted) |-> sorted[i].translation]

(***************************************************************************)
(* LanguageConfig.                                                         *)
(***************************************************************************)
CodeEn == <<"e", "n">>
CodeTlh == <<"t", "l", "h">>

\* The code property of each element of languageOptions.
LanguageCodes == {CodeEn, CodeTlh}

IsLanguageSupported(code) == \E lang \in LanguageCodes : lang = code

(***************************************************************************)
(* TranslationProcessor.                                                   *)
(***************************************************************************)
CreateEmptyResult(input) ==
    [input |-> input, output |-> EmptyString, phonetic |-> Undefined,
     confidence |-> Zero, suggestions |-> <<>>]

Bracketed(input) == <<"[">> \o input \o <<"]">>

\* An unknown result that wraps the normalized input.
CreateUnknownResultNormalized(input) ==
    [input |-> input, output |-> Bracketed(NormalizeText(input)),
     phonetic |-> Undefined, confidence |-> Zero, suggestions |-> <<>>]

CreateUnknownResult(input) ==
    [input |-> input, output |-> Bracketed(input), phonetic |-> Undefined,
     confidence |-> Zero, suggestions |-> <<>>]

\* A slice that starts at the best match: matches.slice(0, 3).
SuggestionsFromBest(matches) ==
    SubSeq(matches, 1, IF Len(matches) < 3 THEN Len(matches) ELSE 3)

\* matches.slice(1, 4)
Suggestions(matches) ==
    SubSeq(matches, 2, IF Len(matches) < 4 THEN Len(matches) ELSE 4)

\* A pronunciation that is attached whatever the output field is.
PhoneticAlways(bestMatch, targetField) == bestMatch.phonetic

\* targetField === "klingon" ? bestMatch.phonetic : undefined
PhoneticFor(bestMatch, targetField) ==
    IF targetField = "klingon" THEN bestMatch.phonetic ELSE Undefined

\* A confidence that repeats the tier score of the Matcher.
ConfidenceByTier(input, bestMatch, sourceField) ==
    CalculateMatchSimilarity(NormalizeText(input), Field(bestMatch, sourceField))

\* calculateSimilarity(normalizeText(input), normalizeText(bestMatch[sourceField]))
ConfidenceFor(input, bestMatch, sourceField) ==
    CalculateSimilarity(NormalizeText(input), NormalizeText(Field(bestMatch, sourceField)))

\* sourceLanguage is given by its code.
ProcessTranslation(input, matches, sourceLanguage) ==
    IF IsEmptyText(input) THEN CreateEmptyResult(input)
    ELSE IF Len(matches) = 0 THEN CreateUnknownResult(input)
    ELSE LET bestMatch == matches[1]
             targetField == IF sourceLanguage = CodeEn THEN "klingon" ELSE "english"
             sourceField == IF sourceLanguage = CodeEn THEN "english" ELSE "klingon"
             confidence == ConfidenceFor(input, bestMatch, sourceField)
         IN  [input |-> input,
              output |-> Field(bestMatch, targetField),
              phonetic |-> PhoneticFor(bestMatch, targetField),
              confidence |-> confidence,
              suggestions |-> Suggestions(matches)]

\* threshold: number = 0.5
DefaultSuccessThreshold == Frac(5, 10)

\* text.startsWith(prefix), for a prefix of one character.
StartsWith(text, prefix) == text # <<>> /\ text[1] = prefix

\* A success test whose confidence comparison is strict.
IsSuccessfulTranslationStrict(translationResult, threshold) ==
    /\ Gt(translationResult.confidence, threshold)
    /\ translationResult.output # EmptyString
    /\ ~StartsWith(translationResult.output, "[")

IsSuccessfulTranslation(translationResult, threshold) ==
    /\ Geq(translationResult.confidence, threshold)
    /\ translationResult.output # EmptyString
    /\ ~StartsWith(translationResult.output, "[")

\* A banding whose lower bounds are exclusive.
GetConfidenceDescriptionExclusive(confidence) ==
    IF Gt(confidence, Frac(9, 10)) THEN "Excellent"
    ELSE IF Gt(confidence, Frac(7, 10)) THEN "Good"
    ELSE IF Gt(confidence, Frac(5, 10)) THEN "Fair"
    ELSE IF Gt(confidence, Frac(3, 10)) THEN "Poor"
    ELSE "No match"

GetConfidenceDescription(confidence) ==
    IF Geq(confidence, Frac(9, 10)) THEN "Excellent"
    ELSE IF Geq(confidence, Frac(7, 10)) THEN "Good"
    ELSE IF Geq(confidence, Frac(5, 10)) THEN "Fair"
    ELSE IF Geq(confidence, Frac(3, 10)) THEN "Poor"
    ELSE "No match"

(***************************************************************************)
(* translationService.                                                     *)
(***************************************************************************)
English == <<"e", "n", "g", "l", "i", "s", "h">>
Klingon == <<"k", "l", "i", "n", "g", "o", "n">>
Vulcan == <<"v", "u", "l", "c", "a", "n">>

CreateErrorResult(message, input) ==
    [input |-> input, output |-> EmptyString, phonetic |-> Undefined,
     confidence |-> Zero, suggestions |-> <<>>]

\* fromLanguage.toLowerCase() === "klingon" ? "klingon" : "english"
SourceFieldOf(fromLanguage) ==
    IF ToLowerCase(fromLanguage) = Klingon THEN "klingon" ELSE "english"

\* (language === "klingon" ? "tlh" : "en")
LanguageOptionCode(language) == IF language = Klingon THEN CodeTlh ELSE CodeEn

(***************************************************************************)
(* Inputs of the model.                                                    *)
(***************************************************************************)
SeqsUpTo(alphabet, n) == UNION {[1..k -> alphabet] : k \in 0..n}

Hello == <<"h", "e", "l", "l", "o">>
HelloBang == <<"H", "e", "l", "l", "o", "!">>
Helo == <<"h", "e", "l", "o">>
NuqneH == <<"n", "u", "q", "n", "e", "H">>

Hexxo == <<"h", "e", "x", "x", "o">>

EntryHello ==
    [id |-> 1, english |-> Hello, klingon |-> NuqneH,
     phonetic |-> <<"n", "o", "o", "k">>, category |-> <<"a">>]
EntryA ==
    [id |-> 2, english |-> <<"a">>, klingon |-> <<"b">>,
     phonetic |-> Undefined, category |-> Undefined]
EntryNoKlingon ==
    [id |-> 3, english |-> <<"A", "!">>, klingon |-> EmptyString,
     phonetic |-> Undefined, category |-> <<"b">>]
EntryNoEnglish ==
    [id |-> 4, english |-> EmptyString, klingon |-> <<"a">>,
     phonetic |-> <<"a">>, category |-> EmptyString]
EntryAB ==
    [id |-> 5, english |-> <<"a", " ", "b">>, klingon |-> <<"c">>,
     phonetic |-> <<"c">>, category |-> Undefined]
EntryBA ==
    [id |-> 6, english |-> <<"b", "a">>, klingon |-> <<"d">>,
     phonetic |-> Undefined, category |-> Undefined]
EntryAA ==
    [id |-> 7, english |-> <<"a", "a">>, klingon |-> <<"e">>,
     phonetic |-> Undefined, category |-> Undefined]
EntryAC ==
    [id |-> 8, english |-> <<"a", "c">>, klingon |-> <<"f">>,
     phonetic |-> Undefined, category |-> Undefined]

EntryPool == {EntryHello, EntryA, EntryNoKlingon, EntryNoEnglish}

\* Six entries that all match the input "a", the exact matches not first.
SixMatches == <<EntryAB, EntryA, EntryBA, EntryNoKlingon, EntryAA, EntryAC>>

ScenarioDictionaries == {SixMatches}

\* The identifier of an entry is unique: no entry occurs twice in a dictionary.
Dictionaries ==
    {d \in SeqsUpTo(EntryPool, MaxDict) :
        \A i, j \in 1..Len(d) : d[i] = d[j] => i = j}
    \cup ScenarioDictionaries

TextAlphabet == {"a", "A", " ", "!"}
ScenarioTexts ==
    {HelloBang, Helo, Hexxo, <<"b", "!">>, <<"a", " ", "!">>, <<"!", " ", "!">>}
Texts == SeqsUpTo(TextAlphabet, MaxTextLen) \cup ScenarioTexts

LanguageIds == {CodeEn, CodeTlh, English, Klingon, Vulcan}

NormAlphabet == {"a", "A", " ", "\t", "!"}
NormTexts == SeqsUpTo(NormAlphabet, MaxNormLen)

SimAlphabet == {"a", "b", "c"}
SimTexts == SeqsUpTo(SimAlphabet, MaxSimLen)

\* The confidences and thresholds: the fractions of [0, 1] with a small
\* denominator.
Confidences == {Frac(n, d) : n \in 0..MaxDenominator, d \in 1..MaxDenominator} \cap
               {c \in (0..MaxDenominator) \X (1..MaxDenominator) : c[1] <= c[2]}

\* Results handed to isSuccessfulTranslation: an empty output, the
\* bracket-wrapped input, a translation, and a text that only starts with "[".
SampleOutputs == {EmptyString, <<"[", "a", "]">>, <<"b">>, <<"[", "b">>}
SampleResults ==
    {[input |-> <<"a">>, output |-> output, phonetic |-> Undefined,
      confidence |-> confidence, suggestions |-> <<>>] :
        output \in SampleOutputs, confidence \in Confidences}

(***************************************************************************)
(* The useTranslation hook.  hook holds the state of useState, the timers  *)
(* set by the auto-translate effect and the calls of the translation       *)
(* service, in the order they were started.  quiet is the time since       *)
(* inputText last changed, in ticks, up to DelayTicks (500 ms).            *)
(***************************************************************************)
HookInitial ==
    [inputText |-> EmptyString, outputText |-> EmptyString, isTranslating |-> FALSE,
     error |-> Null, history |-> <<>>,
     sourceLanguage |-> CodeEn, targetLanguage |-> CodeTlh,
     timers |-> {}, requests |-> <<>>, completed |-> 0, quiet |-> DelayTicks]

\* prev.history.slice(0, 19)
HistoryKept == 19

\* A history that keeps every entry.
PrependHistoryUnbounded(history, historyEntry) == <<historyEntry>> \o history

\* [historyEntry, ...prev.history.slice(0, 19)]
PrependHistory(history, historyEntry) ==
    <<historyEntry>> \o SubSeq(history, 1, IF Len(history) < HistoryKept
                                           THEN Len(history) ELSE HistoryKept)

\* An effect cleanup that leaves the pending timer alone.
KeepTimeout(timers) == timers

\* return () => clearTimeout(timeoutId)
ClearTimeout(timers) == {}

\* The auto-translate effect, run after a render that changed inputText or
\* translate (whose dependencies are inputText and the two languages).
AutoTranslateEffect(prev, next) ==
    IF /\ next.inputText = prev.inputText
       /\ next.sourceLanguage = prev.sourceLanguage
       /\ next.targetLanguage = prev.targetLanguage
    THEN next
    ELSE LET cleaned == [next EXCEPT !.timers = ClearTimeout(@)]
         IN  IF Trim(next.inputText) = EmptyString
             THEN [cleaned EXCEPT !.outputText = EmptyString]
             ELSE [cleaned EXCEPT !.timers = @ \cup
                      {[text |-> next.inputText, elapsed |-> 0]}]

\* The time since the last change of inputText starts again when it changes.
InputChanged(prev, next) ==
    IF next.inputText = prev.inputText THEN next ELSE [next EXCEPT !.quiet = 0]

\* translate up to the await: the blank case, or the start of a request.
BeginTranslate(h, textToTranslate) ==
    IF Trim(textToTranslate) = EmptyString
    THEN [h EXCEPT !.outputText = EmptyString, !.error = Null]
    ELSE [h EXCEPT !.isTranslating = TRUE, !.error = Null,
                   !.requests = Append(@, [text |-> textToTranslate,
                                           status |-> "pending",
                                           output |-> Undefined])]

\* A rejection message that is read from whatever was thrown.
RejectionMessageRaw(rejection) == <<rejection.message>>

\* error instanceof Error ? error.message : "Translation failed"
RejectionMessage(rejection) ==
    IF rejection.isError THEN <<rejection.message>> ELSE <<"Translation failed">>

\* The texts typed into the hook, the output the translation service resolves
\* with for a text (the dictionary entry a / b) and the values it rejects with.
HookTexts == {<<" ">>, <<"a">>, <<"b">>}
ServiceOutput(text) ==
    IF Trim(text) = EntryA.english THEN EntryA.klingon
    ELSE IF Trim(text) = EntryA.klingon THEN EntryA.english
    ELSE EmptyString
Rejections == {[isError |-> TRUE, message |-> "Network error"],
               [isError |-> FALSE, message |-> "timeout"]}

(***************************************************************************)
(* The MainTranslationContent component.  view holds its useState values   *)
(* and the calls of the two services that have not settled yet.            *)
(***************************************************************************)
ViewInitial ==
    [sourceLanguage |-> CodeEn, targetLanguage |-> CodeTlh,
     inputText |-> EmptyString, outputText |-> EmptyString,
     isTranslating |-> FALSE, isPlaying |-> FALSE, error |-> Null,
     translations |-> <<>>, speaking |-> <<>>]

\* useEffect on [inputText]: if (!inputText.trim()) setOutputText("")
ClearOutputEffect(prev, next) ==
    IF next.inputText # prev.inputText /\ Trim(next.inputText) = EmptyString
    THEN [next EXCEPT !.outputText = EmptyString]
    ELSE next

\* A play handler that does not look at isPlaying.
NeverPlaying(v) == FALSE

\* The isPlaying test of the play handlers.
AlreadyPlaying(v) == v.isPlaying

\* handlePlaySourceAudio and handlePlayTargetAudio, for the text and the
\* language code of their panel.
PlayAudio(v, text, language, speechLanguages) ==
    IF Trim(text) = EmptyString \/ AlreadyPlaying(v) THEN v
    ELSE IF language \notin speechLanguages
    THEN [v EXCEPT !.error = <<"Speech synthesis not supported for this language">>]
    ELSE [v EXCEPT !.isPlaying = TRUE, !.error = Null,
                   !.speaking = Append(@, [text |-> Trim(text), language |-> language])]

\* The sequence without its i-th element.
RemoveAt(seq, i) == SubSeq(seq, 1, i - 1) \o SubSeq(seq, i + 1, Len(seq))

\* err instanceof Error ? err.message : fallback
ErrorMessage(rejection, fallback) ==
    IF rejection.isError THEN <<rejection.message>> ELSE <<fallback>>

\* The texts typed into the component and the languages the speech service
\* can speak.
ViewTexts == {EmptyString, <<" ">>, <<"a">>}
SpeechLanguages == {CodeEn}

\* The targets and candidates handed to findMostSimilar.
CandidateTexts == SeqsUpTo(SimAlphabet, MaxCandidateLen)
CandidateLists == SeqsUpTo(CandidateTexts, MaxCandidates)

(***************************************************************************)
(* The state machine: the dictionary is loaded once, then the engine's     *)
(* functions are called.  call is the last call, result its return value   *)
(* and scanned tells whether that call handed the dictionary to the        *)
(* Matcher.  The engine is synchronous: a call returns before the next     *)
(* one starts.                                                             *)
(***************************************************************************)
NoCall == [op |-> "none", args |-> <<>>]

Init ==
    /\ dictionary \in Dictionaries
    /\ call = NoCall
    /\ result = <<>>
    /\ scanned = FALSE
    /\ hook = HookInitial
    /\ view = ViewInitial

InitPure ==
    /\ dictionary = <<>>
    /\ call = NoCall
    /\ result = <<>>
    /\ scanned = FALSE
    /\ hook = HookInitial
    /\ view = ViewInitial

\* translateText({text, fromLanguage, toLanguage})
Translate(text, fromLanguage, toLanguage) ==
    /\ call = NoCall
    /\ call' = [op |-> "translateText", args |-> <<text, fromLanguage, toLanguage>>]
    /\ IF IsEmptyText(text)
       THEN /\ result' = CreateErrorResult("Empty input text", text)
            /\ scanned' = FALSE
       ELSE IF ~IsLanguageSupported(fromLanguage) \/ ~IsLanguageSupported(toLanguage)
       THEN /\ result' = CreateErrorResult("Unsupported language pair", text)
            /\ scanned' = FALSE
       ELSE LET sourceField == SourceFieldOf(fromLanguage)
                matches == FindMatches(text, dictionary, sourceField)
                sourceLang == LanguageOptionCode(fromLanguage)
            IN  /\ result' = ProcessTranslation(text, matches, sourceLang)
                /\ scanned' = TRUE
    /\ UNCHANGED dictionary
    /\ UNCHANGED <<hook, view>>

\* processTranslation(input, matches, sourceLanguage, targetLanguage) called
\* with a list of entries of the dictionary.
Process(input, matches, sourceLanguage) ==
    /\ call = NoCall
    /\ call' = [op |-> "processTranslation", args |-> <<input, matches, sourceLanguage>>]
    /\ result' = ProcessTranslation(input, matches, sourceLanguage)
    /\ scanned' = FALSE
    /\ UNCHANGED dictionary
    /\ UNCHANGED <<hook, view>>

\* findMatches(input, dictionary, sourceField)
Match(input, sourceField) ==
    /\ call = NoCall
    /\ call' = [op |-> "findMatches", args |-> <<input, sourceField>>]
    /\ result' = FindMatches(input, dictionary, sourceField)
    /\ scanned' = TRUE
    /\ UNCHANGED dictionary
    /\ UNCHANGED <<hook, view>>

Normalize(text) ==
    /\ call = NoCall
    /\ call' = [op |-> "normalizeText", args |-> <<text>>]
    /\ result' = NormalizeText(text)
    /\ UNCHANGED <<dictionary, scanned>>
    /\ UNCHANGED <<hook, view>>

Similarity(str1, str2) ==
    /\ call = NoCall
    /\ call' = [op |-> "calculateSimilarity", args |-> <<str1, str2>>]
    /\ result' = CalculateSimilarity(str1, str2)
    /\ UNCHANGED <<dictionary, scanned>>
    /\ UNCHANGED <<hook, view>>

\* searchDictionary(query, dictionary)
Search(query) ==
    /\ call = NoCall
    /\ call' = [op |-> "searchDictionary", args |-> <<query>>]
    /\ result' = SearchDictionary(query, dictionary)
    /\ scanned' = (Trim(query) # EmptyString)
    /\ UNCHANGED dictionary
    /\ UNCHANGED <<hook, view>>

\* findMostSimilar(target, candidates)
MostSimilar(target, candidates) ==
    /\ call = NoCall
    /\ call' = [op |-> "findMostSimilar", args |-> <<target, candidates>>]
    /\ result' = FindMostSimilar(target, candidates)
    /\ UNCHANGED <<dictionary, scanned>>
    /\ UNCHANGED <<hook, view>>

\* isSuccessfulTranslation(result, threshold)
Successful(translationResult, threshold) ==
    /\ call = NoCall
    /\ call' = [op |-> "isSuccessfulTranslation", args |-> <<translationResult, threshold>>]
    /\ result' = IsSuccessfulTranslation(translationResult, threshold)
    /\ UNCHANGED <<dictionary, scanned>>
    /\ UNCHANGED <<hook, view>>

\* isSuccessfulTranslation(result): the threshold takes its default.
SuccessfulByDefault(translationResult) ==
    /\ call = NoCall
    /\ call' = [op |-> "isSuccessfulTranslation", args |-> <<translationResult>>]
    /\ result' = IsSuccessfulTranslation(translationResult, DefaultSuccessThreshold)
    /\ UNCHANGED <<dictionary, scanned>>
    /\ UNCHANGED <<hook, view>>

\* getConfidenceDescription(confidence)
Describe(confidence) ==
    /\ call = NoCall
    /\ call' = [op |-> "getConfidenceDescription", args |-> <<confidence>>]
    /\ result' = GetConfidenceDescription(confidence)
    /\ UNCHANGED <<dictionary, scanned>>
    /\ UNCHANGED <<hook, view>>

\* The caller takes the returned value; the engine keeps nothing of the call.
Return ==
    /\ call # NoCall
    /\ call' = NoCall
    /\ result' = <<>>
    /\ scanned' = FALSE
    /\ UNCHANGED dictionary
    /\ UNCHANGED <<hook, view>>

Next ==
    \/ \E text \in Texts, fromLanguage \in LanguageIds, toLanguage \in LanguageIds :
           Translate(text, fromLanguage, toLanguage)
    \/ \E input \in Texts, n \in 0..Len(dictionary), sourceLanguage \in LanguageCodes :
           Process(input, SubSeq(dictionary, 1, n), sourceLanguage)
    \/ \E input \in Texts, sourceField \in {"english", "klingon"} :
           Match(input, sourceField)
    \/ \E query \in Texts : Search(query)
    \/ Return

Spec == Init /\ [][Next]_vars

NextNormalizer ==
    \/ \E text \in NormTexts : Normalize(text)
    \/ Return

SpecNormalizer == InitPure /\ [][NextNormalizer]_vars

NextSimilarity ==
    \/ \E str1 \in SimTexts, str2 \in SimTexts : Similarity(str1, str2)
    \/ \E target \in CandidateTexts, candidates \in CandidateLists :
           MostSimilar(target, candidates)
    \/ Return

SpecSimilarity == InitPure /\ [][NextSimilarity]_vars

NextProcessor ==
    \/ \E translationResult \in SampleResults, threshold \in Confidences :
           Successful(translationResult, threshold)
    \/ \E translationResult \in SampleResults : SuccessfulByDefault(translationResult)
    \/ \E confidence \in Confidences : Describe(confidence)
    \/ Return

SpecProcessor == InitPure /\ [][NextProcessor]_vars

(***************************************************************************)
(* The actions of the useTranslation hook: each is one event, the render   *)
(* that follows it and the effects of that render.                         *)
(***************************************************************************)
HookFrame == UNCHANGED <<dictionary, call, result, scanned, view>>

SetInputText(text) ==
    /\ hook' = InputChanged(hook,
                   AutoTranslateEffect(hook, [hook EXCEPT !.inputText = text,
                                                         !.error = Null]))
    /\ HookFrame

SetSourceLanguage(language) ==
    /\ hook' = AutoTranslateEffect(hook, [hook EXCEPT !.sourceLanguage = language,
                                                      !.error = Null])
    /\ HookFrame

SetTargetLanguage(language) ==
    /\ hook' = AutoTranslateEffect(hook, [hook EXCEPT !.targetLanguage = language,
                                                      !.error = Null])
    /\ HookFrame

SwapLanguages ==
    /\ hook' = InputChanged(hook,
                   AutoTranslateEffect(hook,
                       [hook EXCEPT !.sourceLanguage = hook.targetLanguage,
                                    !.targetLanguage = hook.sourceLanguage,
                                    !.inputText = hook.outputText,
                                    !.outputText = hook.inputText,
                                    !.error = Null]))
    /\ HookFrame

\* translate(text) called by the user of the hook; text may be left out.
ManualTranslate(text) ==
    /\ hook' = BeginTranslate(hook,
                   IF text \in {Undefined, EmptyString} THEN hook.inputText ELSE text)
    /\ HookFrame

\* Time passes: one tick, while no timer is due.
Tick ==
    /\ \A timer \in hook.timers : timer.elapsed < DelayTicks
    /\ hook.timers # {} \/ hook.quiet < DelayTicks
    /\ hook' = [hook EXCEPT
                   !.timers = {[timer EXCEPT !.elapsed = @ + 1] : timer \in hook.timers},
                   !.quiet = IF @ < DelayTicks THEN @ + 1 ELSE @]
    /\ HookFrame

\* The timeout of the effect runs translate() of the render that set it.
TimerFire(timer) ==
    /\ timer \in hook.timers
    /\ timer.elapsed = DelayTicks
    /\ hook' = BeginTranslate([hook EXCEPT !.timers = @ \ {timer}], timer.text)
    /\ HookFrame

\* The translation service resolves request i with a result.
Resolve(i) ==
    /\ i \in 1..Len(hook.requests)
    /\ hook.requests[i].status = "pending"
    /\ LET output == ServiceOutput(hook.requests[i].text)
           historyEntry == [id |-> hook.completed + 1,
                            query |-> hook.requests[i].text,
                            result |-> [input |-> hook.requests[i].text,
                                        output |-> output]]
       IN  hook' = [hook EXCEPT !.requests[i].status = "resolved",
                                !.requests[i].output = output,
                                !.completed = @ + 1,
                                !.outputText = output,
                                !.isTranslating = FALSE,
                                !.history = PrependHistory(@, historyEntry)]
    /\ HookFrame

\* The translation service rejects request i.
Reject(i, rejection) ==
    /\ i \in 1..Len(hook.requests)
    /\ hook.requests[i].status = "pending"
    /\ hook' = [hook EXCEPT !.requests[i].status = "rejected",
                            !.isTranslating = FALSE,
                            !.error = RejectionMessage(rejection)]
    /\ HookFrame

InitHook ==
    /\ dictionary = <<>>
    /\ call = NoCall
    /\ result = <<>>
    /\ scanned = FALSE
    /\ hook = HookInitial
    /\ view = ViewInitial

NextHook ==
    \/ \E text \in HookTexts : SetInputText(text)
    \/ \E language \in LanguageCodes : SetSourceLanguage(language)
    \/ \E language \in LanguageCodes : SetTargetLanguage(language)
    \/ SwapLanguages
    \/ /\ Len(hook.requests) < MaxRequests
       /\ \E text \in HookTexts \cup {Undefined} : ManualTranslate(text)
    \/ Tick
    \/ /\ Len(hook.requests) < MaxRequests
       /\ \E timer \in hook.timers : TimerFire(timer)
    \/ \E i \in 1..MaxRequests : Resolve(i)
    \/ \E i \in 1..MaxRequests, rejection \in Rejections : Reject(i, rejection)

SpecHook == InitHook /\ [][NextHook]_vars

\* Many translations of one text, two of them in flight at most.
NextHistory ==
    \/ /\ Len(hook.requests) < MaxHistoryRequests
       /\ Cardinality({i \in 1..Len(hook.requests) :
                          hook.requests[i].status = "pending"}) < 2
       /\ ManualTranslate(<<"a">>)
    \/ \E i \in 1..MaxHistoryRequests : Resolve(i)

SpecHistory == InitHook /\ [][NextHistory]_vars

(***************************************************************************)
(* The actions of MainTranslationContent: each is one event, the render    *)
(* that follows it and the effects of that render.                         *)
(***************************************************************************)
ViewFrame == UNCHANGED <<dictionary, call, result, scanned, hook>>

\* onInputChange={setInputText}
ChangeInput(text) ==
    /\ view' = ClearOutputEffect(view, [view EXCEPT !.inputText = text])
    /\ ViewFrame

\* onSourceLanguageChange={setSourceLanguage}
SelectSourceLanguage(language) ==
    /\ view' = [view EXCEPT !.sourceLanguage = language]
    /\ ViewFrame

\* onTargetLanguageChange={setTargetLanguage}
SelectTargetLanguage(language) ==
    /\ view' = [view EXCEPT !.targetLanguage = language]
    /\ ViewFrame

HandleLanguageSwap ==
    /\ view' = ClearOutputEffect(view,
                   [view EXCEPT !.sourceLanguage = view.targetLanguage,
                                !.targetLanguage = view.sourceLanguage,
                                !.inputText = view.outputText,
                                !.outputText = view.inputText,
                                !.error = Null])
    /\ ViewFrame

\* handleTranslate up to the await.
HandleTranslate ==
    /\ view' = IF Trim(view.inputText) = EmptyString THEN view
               ELSE [view EXCEPT !.isTranslating = TRUE, !.error = Null,
                                 !.translations = Append(@, Trim(view.inputText))]
    /\ ViewFrame

\* The translation service resolves the i-th pending call.
TranslationResolves(i) ==
    /\ i \in 1..Len(view.translations)
    /\ view' = [view EXCEPT !.outputText = ServiceOutput(view.translations[i]),
                            !.isTranslating = FALSE,
                            !.translations = RemoveAt(@, i)]
    /\ ViewFrame

\* The translation service rejects the i-th pending call.
TranslationRejects(i, rejection) ==
    /\ i \in 1..Len(view.translations)
    /\ view' = [view EXCEPT !.error = ErrorMessage(rejection, "Translation failed"),
                            !.isTranslating = FALSE,
                            !.translations = RemoveAt(@, i)]
    /\ ViewFrame

HandlePlaySourceAudio ==
    /\ view' = PlayAudio(view, view.inputText, view.sourceLanguage, SpeechLanguages)
    /\ ViewFrame

HandlePlayTargetAudio ==
    /\ view' = PlayAudio(view, view.outputText, view.targetLanguage, SpeechLanguages)
    /\ ViewFrame

\* speechService.speak resolves: the finally block.
SpeakResolves(i) ==
    /\ i \in 1..Len(view.speaking)
    /\ view' = [view EXCEPT !.isPlaying = FALSE, !.speaking = RemoveAt(@, i)]
    /\ ViewFrame

\* speechService.speak rejects: the catch and the finally block.
SpeakRejects(i, rejection) ==
    /\ i \in 1..Len(view.speaking)
    /\ view' = [view EXCEPT !.error = ErrorMessage(rejection, "Speech synthesis failed"),
                            !.isPlaying = FALSE,
                            !.speaking = RemoveAt(@, i)]
    /\ ViewFrame

HandleClearInput ==
    /\ view' = [view EXCEPT !.inputText = EmptyString, !.outputText = EmptyString,
                            !.error = Null]
    /\ ViewFrame

HandleDismissError ==
    /\ view' = [view EXCEPT !.error = Null]
    /\ ViewFrame

InitView ==
    /\ dictionary = <<>>
    /\ call = NoCall
    /\ result = <<>>
    /\ scanned = FALSE
    /\ hook = HookInitial
    /\ view = ViewInitial

NextView ==
    \/ \E text \in ViewTexts : ChangeInput(text)
    \/ \E language \in LanguageCodes : SelectSourceLanguage(language)
    \/ \E language \in LanguageCodes : SelectTargetLanguage(language)
    \/ HandleLanguageSwap
    \/ /\ Len(view.translations) < MaxPending
       /\ HandleTranslate
    \/ \E i \in 1..MaxPending : TranslationResolves(i)
    \/ \E i \in 1..MaxPending, rejection \in Rejections : TranslationRejects(i, rejection)
    \/ HandlePlaySourceAudio
    \/ HandlePlayTargetAudio
    \/ \E i \in 1..Len(view.speaking) : SpeakResolves(i)
    \/ \E i \in 1..Len(view.speaking), rejection \in Rejections : SpeakRejects(i, rejection)
    \/ HandleClearInput
    \/ HandleDismissError

SpecView == InitView /\ [][NextView]_vars

(***************************************************************************)
(* Properties.                                                             *)
(***************************************************************************)
IsTranslateCall == call.op = "translateText"
IsProcessCall == call.op = "processTranslation"
IsNormalizeCall == call.op = "normalizeText"
IsSimilarityCall == call.op = "calculateSimilarity"

\* The translate call reached the Matcher: text is not empty after
\* normalization and translate accepts both language identifiers.
Accepted ==
    /\ IsTranslateCall
    /\ NormalizeText(call.args[1]) # EmptyString
    /\ call.args[2] \in {CodeEn, CodeTlh}
    /\ call.args[3] \in {CodeEn, CodeTlh}

EmptyShape(text) ==
    [input |-> text, output |-> EmptyString, phonetic |-> Undefined,
     confidence |-> Zero, suggestions |-> <<>>]

\* C1: with a dictionary that contains {english: "hello", klingon: "nuqneH"},
\* translate("Hello!", "english", "klingon") returns output "nuqneH" with
\* confidence 1.0.
C1_HelloScenario ==
    (/\ IsTranslateCall
     /\ call.args = <<HelloBang, English, Klingon>>
     /\ \E i \in 1..Len(dictionary) :
            dictionary[i].english = Hello /\ dictionary[i].klingon = NuqneH)
    => (result.output = NuqneH /\ result.confidence = One)

\* The output of a translation that searches sourceField and answers with
\* targetField of the best entry.
DirectedOutput(text, sourceField, targetField) ==
    LET matches == FindMatches(text, dictionary, sourceField)
    IN  IF matches = <<>> THEN Bracketed(text) ELSE Field(matches[1], targetField)

\* C2: for every language pair translate accepts, a Klingon from_language
\* matches the input against the Klingon text and returns the best entry's
\* English text, and an English from_language matches against the English text
\* and returns the Klingon text.
C2_Bidirectional ==
    Accepted =>
        /\ call.args[2] = CodeTlh
               => result.output = DirectedOutput(call.args[1], "klingon", "english")
        /\ call.args[2] = CodeEn
               => result.output = DirectedOutput(call.args[1], "english", "klingon")

\* C3: every result of translate or process has 0 <= confidence <= 1 and at most
\* 3 suggestions; an empty output has confidence 0; an output that is the
\* bracket-wrapped input has confidence 0 and no suggestions.
C3_ResultInvariant ==
    (IsTranslateCall \/ IsProcessCall) =>
        /\ Geq(result.confidence, Zero)
        /\ Geq(One, result.confidence)
        /\ Len(result.suggestions) <= 3
        /\ result.output = EmptyString => result.confidence = Zero
        /\ result.output = Bracketed(result.input)
               => (result.confidence = Zero /\ result.suggestions = <<>>)

\* The target field of a translation: the English text when the source language
\* is Klingon, the Klingon text otherwise.
TargetLanguageField(fromLanguage) ==
    IF fromLanguage \in {CodeTlh, Klingon} THEN "english" ELSE "klingon"

\* C4: translate always returns a well-formed result whose output is the empty
\* string, the input wrapped in brackets, or the target-language text of an
\* entry of the dictionary.
C4_TotalWellFormed ==
    IsTranslateCall =>
        /\ result.input = call.args[1]
        /\ \/ result.output = EmptyString
           \/ result.output = Bracketed(call.args[1])
           \/ \E i \in 1..Len(dictionary) :
                  result.output = Field(dictionary[i], TargetLanguageField(call.args[2]))

NoEntryAboveThreshold(text, sourceField) ==
    \A i \in 1..Len(dictionary) :
        \/ Field(dictionary[i], sourceField) = EmptyString
        \/ ~Gt(CalculateMatchSimilarity(NormalizeText(text),
                                         Field(dictionary[i], sourceField)),
               Frac(6, 10))

\* C6: for an accepted call in which no entry is assigned a similarity above
\* 0.6, translate returns the raw input in brackets, confidence 0 and no
\* suggestions.
C6_NoMatchBrackets ==
    (Accepted /\ NoEntryAboveThreshold(call.args[1], "english"))
    => /\ result.output = Bracketed(call.args[1])
       /\ result.confidence = Zero
       /\ result.suggestions = <<>>

\* A text that normalization changes found no match in a non-empty dictionary.
C6_Witness ==
    /\ Accepted
    /\ dictionary = <<EntryHello>>
    /\ call.args[1] = <<"b", "!">>
    /\ result.output = <<"[", "b", "!", "]">>

\* C7: normalize(normalize(s)) = normalize(s) for every string s.
C7_NormalizeIdempotent ==
    IsNormalizeCall => NormalizeText(result) = result

\* The unit-cost edit distance, by its recursive definition.
RECURSIVE EditDistance(_, _)
EditDistance(a, b) ==
    IF a = <<>> THEN Len(b)
    ELSE IF b = <<>> THEN Len(a)
    ELSE Min3(EditDistance(Tail(a), b) + 1,
              EditDistance(a, Tail(b)) + 1,
              EditDistance(Tail(a), Tail(b)) + (IF Head(a) = Head(b) THEN 0 ELSE 1))

\* C8: for strings that are not both empty, similarity(a, b) is
\* 1 - levenshtein(a, b) / max(len(a), len(b)), and it lies in [0, 1].
C8_SimilarityFormula ==
    (IsSimilarityCall /\ ~(call.args[1] = <<>> /\ call.args[2] = <<>>)) =>
        LET a == call.args[1]
            b == call.args[2]
            maxLen == Max2(Len(a), Len(b))
        IN  /\ result[1] * maxLen = (maxLen - EditDistance(a, b)) * result[2]
            /\ result[2] > 0
            /\ 0 <= result[1]
            /\ result[1] <= result[2]

\* Two strings of different lengths that need a deletion and a substitution.
C8_Witness ==
    /\ IsSimilarityCall
    /\ call.args = <<(<<"a", "b">>), (<<"a", "c", "b">>)>>
    /\ result = <<2, 3>>

\* C9: similarity(a, b) = similarity(b, a).
C9_SimilaritySymmetric ==
    IsSimilarityCall => result = CalculateSimilarity(call.args[2], call.args[1])

\* Two different strings of different lengths with a similarity between 0 and 1.
C9_Witness ==
    /\ IsSimilarityCall
    /\ Len(call.args[1]) < Len(call.args[2])
    /\ call.args[1] # <<>>
    /\ result \notin {Zero, One}

\* C10: similarity(s, s) = 1.0 for every s, the empty string included, and
\* similarity(a, b) = 0.0 when exactly one of a, b is empty.
C10_ReflexiveAndEmpty ==
    IsSimilarityCall =>
        /\ call.args[1] = call.args[2] => result = One
        /\ (call.args[1] = <<>>) # (call.args[2] = <<>>) => result = Zero

\* The similarity of the empty string with itself was computed.
C10_Witness ==
    /\ IsSimilarityCall
    /\ call.args = <<(<<>>), (<<>>)>>
    /\ result = One

IsMatchCall == call.op = "findMatches"

\* Entry i of the dictionary has a usable searched field and the tier
\* similarity assigned to it for this input is strictly greater than 0.6.
AboveThreshold(input, sourceField, i) ==
    /\ Field(dictionary[i], sourceField) # EmptyString
    /\ LET similarity == CalculateMatchSimilarity(NormalizeText(input),
                                                  Field(dictionary[i], sourceField))
       IN  similarity[1] * 10 > 6 * similarity[2]

\* C11: find_matches returns an entry if and only if the entry has a usable
\* searched field and its assigned tier similarity is strictly greater than
\* 0.6 (no similarity is assigned for blank input, which returns nothing).
C11_ThresholdInclusion ==
    IsMatchCall =>
        IF Trim(call.args[1]) = EmptyString THEN result = <<>>
        ELSE \A i \in 1..Len(dictionary) :
                 (\E k \in 1..Len(result) : result[k] = dictionary[i])
                     <=> AboveThreshold(call.args[1], call.args[2], i)

\* An entry whose similarity to the input is exactly 0.6 was left out.
C11_Witness ==
    /\ IsMatchCall
    /\ call.args = <<Hexxo, "english">>
    /\ dictionary = <<EntryHello>>
    /\ CalculateSimilarity(Hexxo, Hello) = Frac(6, 10)
    /\ result = <<>>

\* The tier similarity assigned to entry i of the dictionary.
AssignedSimilarity(input, sourceField, i) ==
    CalculateMatchSimilarity(NormalizeText(input), Field(dictionary[i], sourceField))

\* The indices of the dictionary entries that the result holds.
Returned == {i \in 1..Len(dictionary) : \E k \in 1..Len(result) : result[k] = dictionary[i]}

\* The position of entry i among the returned entries when they are ordered by
\* higher similarity first and, for equal similarity, by dictionary position.
Rank(input, sourceField, i) ==
    LET mine == AssignedSimilarity(input, sourceField, i)
        before(j) ==
            LET other == AssignedSimilarity(input, sourceField, j)
            IN  \/ other[1] * mine[2] > mine[1] * other[2]
                \/ other = mine /\ j < i
    IN  1 + Cardinality({j \in Returned : before(j)})

\* C12: the list find_matches returns is ordered by non-increasing assigned
\* similarity, and entries of equal similarity keep their dictionary order.
C12_RankedStable ==
    IsMatchCall =>
        /\ Len(result) = Cardinality(Returned)
        /\ \A i \in Returned :
               result[Rank(call.args[1], call.args[2], i)] = dictionary[i]

\* Six matches, two exact ones behind partial ones in the dictionary, were
\* returned exact first and otherwise in dictionary order.
C12_Witness ==
    /\ IsMatchCall
    /\ call.args = <<(<<"a">>), "english">>
    /\ dictionary = SixMatches
    /\ result = <<EntryA, EntryNoKlingon, EntryAB, EntryBA, EntryAA, EntryAC>>

\* C13: find_matches never returns an entry whose searched field is empty.
C13_UsableFieldOnly ==
    IsMatchCall =>
        \A k \in 1..Len(result) : Field(result[k], call.args[2]) # EmptyString

\* An entry without English text stood before a matching entry and was skipped.
C13_Witness ==
    /\ IsMatchCall
    /\ call.args = <<(<<"a">>), "english">>
    /\ dictionary = <<EntryNoEnglish, EntryA>>
    /\ result = <<EntryA>>

\* The field process writes to the output for a source language code.
ProcessTargetField(sourceLanguage) ==
    IF sourceLanguage = CodeEn THEN "klingon" ELSE "english"

\* The runner-ups of a match list: the entries behind the first, three at most.
RunnerUps(matches) ==
    [k \in 1..(IF Len(matches) > 4 THEN 3 ELSE Len(matches) - 1) |-> matches[k + 1]]

\* The result of the process call uses matches[0] for the output and
\* matches[1..4] for the suggestions.
BestAndRunnerUps ==
    LET matches == call.args[2]
    IN  /\ result.output = Field(matches[1], ProcessTargetField(call.args[3]))
        /\ result.suggestions = RunnerUps(matches)
        /\ Len(result.suggestions) <= 3
        /\ \A k \in 1..Len(result.suggestions) : result.suggestions[k] # matches[1]
        /\ Len(matches) = 6 =>
               /\ Len(result.suggestions) = 3
               /\ \A k \in 1..3 : result.suggestions[k] \notin {matches[5], matches[6]}

\* C14 as stated: whenever matches is non-empty, process uses matches[0] as the
\* output and returns matches[1..4] as suggestions.
C14_Original ==
    (IsProcessCall /\ call.args[2] # <<>>) => BestAndRunnerUps

\* C14 amended: when matches is non-empty and the input is not empty after
\* normalization, process uses matches[0] as the output and returns
\* matches[1..4] as suggestions: at most three, in rank order, without the
\* entry used for the output; of 6 matches the last 2 are discarded.
C14_Suggestions ==
    (IsProcessCall /\ call.args[2] # <<>> /\ NormalizeText(call.args[1]) # EmptyString)
        => BestAndRunnerUps

\* Six matches were processed: three suggestions came back.
C14_Witness ==
    /\ IsProcessCall
    /\ call.args = <<(<<"a">>), SixMatches, CodeEn>>
    /\ result.output = <<"c">>
    /\ result.suggestions = <<EntryA, EntryBA, EntryNoKlingon>>

\* C15: when the best match was selected through the exact tier, the reported
\* confidence is 1.0.
C15_ExactTierConfidence ==
    Accepted =>
        LET matches == FindMatches(call.args[1], dictionary, "english")
        IN  (/\ matches # <<>>
             /\ IsExactMatch(NormalizeText(call.args[1]), matches[1].english))
            => result.confidence = One

\* C16: in the at-least-one-match case process sets the output to the best
\* entry's target text and attaches the entry's pronunciation exactly when the
\* output field is the Klingon field.
C16_OutputAndPhonetic ==
    (IsProcessCall /\ call.args[2] # <<>> /\ NormalizeText(call.args[1]) # EmptyString)
        => LET bestMatch == call.args[2][1]
           IN  /\ call.args[3] = CodeEn =>
                      /\ result.output = bestMatch.klingon
                      /\ result.phonetic = bestMatch.phonetic
               /\ call.args[3] = CodeTlh =>
                      /\ result.output = bestMatch.english
                      /\ result.phonetic = Undefined

\* An entry that has a pronunciation was the best match of a Klingon-to-English
\* call, and the result carries none.
C16_Witness ==
    /\ IsProcessCall
    /\ call.args = <<(<<"a">>), (<<EntryHello>>), CodeTlh>>
    /\ result.output = Hello
    /\ result.phonetic = Undefined

IsSuccessfulCall == call.op = "isSuccessfulTranslation"
IsDescribeCall == call.op = "getConfidenceDescription"

\* C17: is_successful(result, threshold) is true exactly when confidence >=
\* threshold (0.5 by default), the output is not empty and does not start with
\* "["; so it is false for every empty-input and unknown-input result.
C17_SuccessPredicate ==
    IsSuccessfulCall =>
        LET translationResult == call.args[1]
            threshold == IF Len(call.args) = 2 THEN call.args[2] ELSE <<1, 2>>
            confidence == translationResult.confidence
        IN  /\ result <=>
                  /\ confidence[1] * threshold[2] >= threshold[1] * confidence[2]
                  /\ translationResult.output # <<>>
                  /\ Head(translationResult.output) # "["
            /\ translationResult.output \in {<<>>, Bracketed(translationResult.input)}
                   => ~result

\* A translation whose confidence equals the threshold counts as a success.
C17_Witness ==
    /\ IsSuccessfulCall
    /\ Len(call.args) = 2
    /\ call.args[1].output = <<"b">>
    /\ call.args[1].confidence = <<1, 2>>
    /\ call.args[2] = <<1, 2>>
    /\ result = TRUE

AtLeast(confidence, tenths) == confidence[1] * 10 >= tenths * confidence[2]

\* C18: confidence_label gives "Excellent" for >= 0.9, "Good" for >= 0.7 and
\* < 0.9, "Fair" for >= 0.5 and < 0.7, "Poor" for >= 0.3 and < 0.5 and
\* "No match" below 0.3.
C18_ConfidenceBands ==
    IsDescribeCall =>
        LET confidence == call.args[1]
        IN  /\ result = "Excellent" <=> AtLeast(confidence, 9)
            /\ result = "Good" <=> (AtLeast(confidence, 7) /\ ~AtLeast(confidence, 9))
            /\ result = "Fair" <=> (AtLeast(confidence, 5) /\ ~AtLeast(confidence, 7))
            /\ result = "Poor" <=> (AtLeast(confidence, 3) /\ ~AtLeast(confidence, 5))
            /\ result = "No match" <=> ~AtLeast(confidence, 3)
            /\ result \in {"Excellent", "Good", "Fair", "Poor", "No match"}

\* The lower bound of a band belongs to the band.
C18_Witness ==
    /\ IsDescribeCall
    /\ call.args[1] = <<7, 10>>
    /\ result = "Good"

IsMostSimilarCall == call.op = "findMostSimilar"
IsSearchCall == call.op = "searchDictionary"

\* The similarity of the k-th candidate to the target, by the edit distance.
CandidateSimilarity(target, candidates, k) ==
    LET longest == Max2(Len(target), Len(candidates[k]))
    IN  IF longest = 0 THEN One
        ELSE Frac(longest - EditDistance(target, candidates[k]), longest)

\* C19: find_most_similar(target, candidates) returns None exactly when
\* candidates is empty; for a non-empty list it returns the first candidate,
\* in iteration order, whose similarity to target is the maximum over the list.
C19_MostSimilar ==
    IsMostSimilarCall =>
        LET target == call.args[1]
            candidates == call.args[2]
            Sim(k) == CandidateSimilarity(target, candidates, k)
        IN  /\ result = Null <=> candidates = <<>>
            /\ candidates # <<>> =>
                   \E k \in 1..Len(candidates) :
                       /\ result = candidates[k]
                       /\ \A j \in 1..Len(candidates) : Geq(Sim(k), Sim(j))
                       /\ \A j \in 1..(k - 1) : Gt(Sim(k), Sim(j))

\* The entries of the dictionary the query selects: the normalized query is a
\* substring of the normalized English text, Klingon text or category label.
Selected(query, i) ==
    LET normalizedQuery == NormalizeText(query)
        entry == dictionary[i]
    IN  \/ Includes(NormalizeText(entry.english), normalizedQuery)
        \/ Includes(NormalizeText(entry.klingon), normalizedQuery)
        \/ /\ entry.category \notin {Undefined, EmptyString}
           /\ Includes(NormalizeText(entry.category), normalizedQuery)

SelectedUpTo(query, i) == {j \in 1..i : Selected(query, j)}

\* C20: search_dictionary(query, dictionary) returns, in dictionary order and
\* without failing on entries that have no category, exactly the entries for
\* which the normalized query is a substring of the normalized English text,
\* Klingon text or category label; a blank query returns the empty list.
C20_SearchDictionary ==
    IsSearchCall =>
        LET query == call.args[1]
        IN  IF Trim(query) = EmptyString THEN result = <<>>
            ELSE /\ Len(result) = Cardinality(SelectedUpTo(query, Len(dictionary)))
                 /\ \A i \in 1..Len(dictionary) :
                        Selected(query, i) =>
                            result[Cardinality(SelectedUpTo(query, i))] = dictionary[i]

\* A query found in the category of one entry and in the English text of a
\* later entry that has no category.
C20_Witness ==
    /\ IsSearchCall
    /\ call.args[1] = <<"A">>
    /\ dictionary = <<EntryHello, EntryA>>
    /\ result = <<EntryHello, EntryA>>

\* The similarity of two texts by their edit distance.
DistanceSimilarity(str1, str2) ==
    LET longest == Max2(Len(str1), Len(str2))
    IN  IF longest = 0 THEN One
        ELSE Frac(longest - EditDistance(str1, str2), longest)

\* The tier similarity of an input and a field: 1.0 when the normalized texts
\* are equal, else 0.9 when one contains the other, else their edit-distance
\* similarity.
TierSimilarity(input, field) ==
    LET normalizedInput == NormalizeText(input)
        normalizedField == NormalizeText(field)
    IN  IF normalizedInput = normalizedField THEN <<1, 1>>
        ELSE IF \/ Includes(normalizedInput, normalizedField)
                \/ Includes(normalizedField, normalizedInput) THEN <<9, 10>>
        ELSE DistanceSimilarity(normalizedInput, normalizedField)

\* C23: for each entry with a usable searched field, find_matches assigns 1.0
\* if normalize(input) equals the normalized field, otherwise 0.9 if one of
\* the two normalized strings contains the other, otherwise their
\* edit-distance similarity.
C23_TierOrder ==
    (IsMatchCall /\ Trim(call.args[1]) # EmptyString) =>
        \A i \in 1..Len(dictionary) :
            Field(dictionary[i], call.args[2]) # EmptyString =>
                AssignedSimilarity(call.args[1], call.args[2], i)
                    = TierSimilarity(call.args[1], Field(dictionary[i], call.args[2]))

\* The field process reads the confidence from, for a source language code.
ProcessSourceField(sourceLanguage) ==
    IF sourceLanguage = CodeEn THEN "english" ELSE "klingon"

\* C24: in the at-least-one-match case process reports the confidence
\* similarity(normalize(input), normalize(source field of matches[0])), on the
\* field the Matcher searched and whatever tier score that entry had.
C24_ConfidenceRecomputed ==
    /\ (IsProcessCall /\ call.args[2] # <<>> /\ NormalizeText(call.args[1]) # EmptyString)
           => result.confidence =
                  DistanceSimilarity(NormalizeText(call.args[1]),
                      NormalizeText(Field(call.args[2][1], ProcessSourceField(call.args[3]))))
    /\ Accepted =>
           LET searched == SourceFieldOf(call.args[2])
               matches == FindMatches(call.args[1], dictionary, searched)
           IN  matches # <<>> =>
                   result.confidence =
                       DistanceSimilarity(NormalizeText(call.args[1]),
                                          NormalizeText(Field(matches[1], searched)))

\* The best match was selected through the partial tier (0.9) and the reported
\* confidence is the edit-distance similarity of "b" and "a b".
C24_Witness ==
    /\ IsTranslateCall
    /\ call.args = <<(<<"b", "!">>), CodeEn, CodeTlh>>
    /\ dictionary = SixMatches
    /\ result.output = <<"c">>
    /\ AssignedSimilarity(call.args[1], "english", 1) = <<9, 10>>
    /\ result.confidence = <<1, 3>>

\* C28: find_matches returns the empty list for every input that is empty
\* after normalization (empty, whitespace-only, or made of stripped punctuation
\* and whitespace), whatever the dictionary contains.
C28_EmptyInputNoMatches ==
    (IsMatchCall /\ NormalizeText(call.args[1]) = EmptyString) => result = <<>>

\* C29: whenever translate returns a dictionary entry's translation as output,
\* the confidence it reports is strictly greater than 0.6.
C29_ConfidenceAboveThreshold ==
    (Accepted /\ FindMatches(call.args[1], dictionary, SourceFieldOf(call.args[2])) # <<>>)
        => result.confidence[1] * 10 > 6 * result.confidence[2]

\* C21: after any sequence of translate calls the history of the hook holds
\* at most 20 entries, newest first: it is the last 20 completed translations
\* (all of them while there are fewer), each prepended when it completed, the
\* oldest dropped when 20 were present.
C21_HistoryNewestFirst ==
    /\ Len(hook.history) <= 20
    /\ Len(hook.history) = (IF hook.completed < 20 THEN hook.completed ELSE 20)
    /\ \A k \in 1..Len(hook.history) : hook.history[k].id = hook.completed - k + 1

\* The twenty-first translation completed: the first one is gone.
C21_Witness ==
    /\ hook.completed = 21
    /\ Len(hook.history) = 20
    /\ hook.history[1].id = 21
    /\ hook.history[20].id = 2

\* A step of the hook that changes inputText.
InputChangeStep == hook'.inputText # hook.inputText

\* A step of the hook that starts an automatic translation: a timer is spent
\* and a request begins.
AutoStartStep ==
    /\ Len(hook'.requests) = Len(hook.requests) + 1
    /\ hook'.timers # hook.timers

\* C22: a change of inputText to non-blank text starts an automatic translation
\* only after 500 ms without a further input change; every input change
\* cancels the pending timer and starts none, so a burst starts exactly one
\* translation, of the last text; a change to blank text starts none and
\* clears outputText.
C22_Debounce ==
    [][/\ InputChangeStep =>
              /\ hook'.requests = hook.requests
              /\ IF Trim(hook'.inputText) = EmptyString
                 THEN hook'.timers = {} /\ hook'.outputText = EmptyString
                 ELSE hook'.timers = {[text |-> hook'.inputText, elapsed |-> 0]}
       /\ AutoStartStep =>
              /\ hook.quiet = DelayTicks
              /\ hook.timers = {[text |-> hook.inputText, elapsed |-> DelayTicks]}
              /\ hook'.requests[Len(hook'.requests)].text = hook.inputText
              /\ Trim(hook.inputText) # EmptyString
              /\ hook'.timers = {}
      ]_vars

\* The timer of the text typed last has run out: it is spent, and the one
\* translation it started is in flight.
C22_Witness ==
    /\ hook.inputText = <<"b">>
    /\ hook.requests = <<[text |-> <<"b">>, status |-> "pending", output |-> Undefined]>>
    /\ hook.timers = {}
    /\ hook.quiet = DelayTicks
    /\ hook.isTranslating

\* The requests of the hook that are still in flight.
InFlight(h) == {i \in 1..Len(h.requests) : h.requests[i].status = "pending"}

\* A step in which setInputText, a language change or a start of translate
\* takes place.
ErrorResetStep ==
    \/ \E text \in HookTexts : SetInputText(text)
    \/ \E language \in LanguageCodes : SetSourceLanguage(language)
    \/ \E language \in LanguageCodes : SetTargetLanguage(language)
    \/ SwapLanguages
    \/ \E text \in HookTexts \cup {Undefined} : ManualTranslate(text)
    \/ \E timer \in hook.timers : TimerFire(timer)

\* C27: when the translation service rejects, translate leaves outputText and
\* history unchanged, sets error to the rejection's message ("Translation
\* failed" when the rejection is not an Error) and isTranslating to false; a
\* later setInputText, language change or translate start resets error to null.
C27_RejectionHandling ==
    [][/\ \A i \in InFlight(hook) \ InFlight(hook'), rejection \in Rejections :
              Reject(i, rejection) =>
                  /\ hook'.outputText = hook.outputText
                  /\ hook'.history = hook.history
                  /\ hook'.isTranslating = FALSE
                  /\ rejection.isError => hook'.error = <<rejection.message>>
                  /\ ~rejection.isError => hook'.error = <<"Translation failed">>
       /\ ErrorResetStep => hook'.error = Null
      ]_vars

\* The service rejected with a value that is not an Error, after an earlier
\* translation had filled the output and the history.
C27_Witness ==
    /\ Len(hook.requests) = 2
    /\ hook.requests[1].status = "resolved"
    /\ hook.requests[2].status = "rejected"
    /\ hook.error = <<"Translation failed">>
    /\ hook.outputText = hook.requests[1].output
    /\ Len(hook.history) = 1
    /\ ~hook.isTranslating

\* C30: when several translation requests overlap, isTranslating is true in
\* every state in which a request is still in flight, and once all of them
\* have settled outputText is the result of the most recently started request.
C30_OverlappingRequests ==
    /\ [](InFlight(hook) # {} => hook.isTranslating)
    /\ [][(/\ InFlight(hook) # {}
           /\ InFlight(hook') = {}
           /\ hook'.requests[Len(hook'.requests)].status = "resolved")
              => hook'.outputText = hook'.requests[Len(hook'.requests)].output]_vars

\* C25: in MainTranslationContent, in every state in which inputText is blank
\* (after it became blank and while it stays blank, a translation started
\* before the clearing resolving afterwards included) outputText is empty.
C25_OutputClearedWithInput ==
    Trim(view.inputText) = EmptyString => view.outputText = EmptyString

\* C26: MainTranslationContent never has two speak calls pending, isPlaying is
\* true exactly while a speak call is pending, and a play request made while
\* isPlaying is true is ignored.
C26_OneSpeakAtATime ==
    /\ [](/\ Len(view.speaking) <= 1
          /\ view.isPlaying <=> view.speaking # <<>>)
    /\ [][(view.isPlaying /\ (HandlePlaySourceAudio \/ HandlePlayTargetAudio))
              => view' = view]_vars

\* The source text is being spoken and the output holds a translation that
\* could be played too.
C26_Witness ==
    /\ view.isPlaying
    /\ view.speaking = <<[text |-> <<"a">>, language |-> CodeEn]>>
    /\ view.outputText = <<"b">>
    /\ view.targetLanguage = CodeEn

====
